---- MODULE Spec2Model ----
(***************************************************************************)
(* Model of pykeen's stateful interaction functions                        *)
(* (src/src/pykeen/nn/modules.py).                                         *)
(*                                                                         *)
(* Three specifications share the variables below:                         *)
(*   SpecShape  calls the pure resolver                                    *)
(*              _calculate_missing_shape_information on bounded inputs;    *)
(*   SpecDims   calls the static helper _remove_dim on bounded inputs;     *)
(*   Spec       constructs an interaction function and calls forward,      *)
(*              reset_parameters and the four scoring entry points on it.  *)
(* Every call is one action: it records the operation, its arguments, how  *)
(* it ended (return value or exception) and how often forward and the      *)
(* numeric kernel were entered while it ran.                               *)
(***************************************************************************)
EXTENDS Integers, Sequences, FiniteSets, TLC

VARIABLES
    inst,         \* the interaction function instance, NoInstance before construction
    op,           \* name of the last operation called
    args,         \* its arguments
    ret,          \* how it ended: a Return(..) or a Raise(..) record
    fwdCalls,     \* number of times forward was entered during the last operation
    kernelCalls   \* number of times a pkf.*_interaction kernel was entered

vars == <<inst, op, args, ret, fwdCalls, kernelCalls>>

(***************************************************************************)
(* Bounds                                                                  *)
(***************************************************************************)
MaxDim == 16       \* embedding dimensions 1..MaxDim handed to the resolver
MaxFactor == 10    \* given factors 1..MaxFactor handed to the resolver
MaxBatch == 2      \* batch sizes 1..MaxBatch
MaxNum == 2        \* candidate counts 1..MaxNum
MaxEmbDim == 4     \* embedding dimensions 1..MaxEmbDim handed to ConvE's constructor
MaxGeom == 2       \* geometry factors 1..MaxGeom handed to ConvE's constructor
MaxRank == 4       \* tensors of 1..MaxRank axes handed to _remove_dim
MaxDims == 3       \* up to MaxDims dims handed to _remove_dim

(***************************************************************************)
(* Python values                                                           *)
(***************************************************************************)
\* Optional[int] = None: the unset factor.  Factors and every quotient the
\* resolver computes are >= 0, so -1 is never a computed value.
None == -1

\* ConvEInteractionFunction.__init__'s default embedding_dim
DefaultEmbeddingDim == 200

\* A call ends by returning a value or by raising an exception.  type is the
\* Python exception class, line the raising line of modules.py, val the
\* returned value or the values the exception message carries.
Return(v) == [ok |-> TRUE, type |-> "none", line |-> 0, val |-> v]
Raise(type, line, payload) == [ok |-> FALSE, type |-> type, line |-> line, val |-> payload]

NoCall == [ok |-> TRUE, type |-> "none", line |-> 0, val |-> <<>>]

(***************************************************************************)
(* _calculate_missing_shape_information                                    *)
(***************************************************************************)
\* math.floor(math.sqrt(n)) for n >= 1
FloorSqrt(n) == CHOOSE s \in 0..n : s * s <= n /\ (s + 1) * (s + 1) > n

\* max(...) of a non-empty set of integers
MaxOf(S) == CHOOSE m \in S : \A x \in S : x <= m

\* number of None entries of a tuple
NumNone(factors) == Cardinality({i \in DOMAIN factors : factors[i] = None})

\* Mutant of the resolver: the final product check of lines 336-337 is dropped.
CalculateMissingShapeInformation_NoProductCheck(embedding_dim, input_channels, width, height) ==
    LET allNone == input_channels = None /\ width = None /\ height = None
        h1 == IF allNone
              THEN MaxOf({f \in 1..FloorSqrt(embedding_dim) : embedding_dim % f = 0})
              ELSE height
        w1 == IF allNone THEN embedding_dim \div h1 ELSE width
        ic1 == IF allNone THEN 1 ELSE input_channels
        ic2 == IF ic1 = None /\ (w1 = None \/ h1 = None) THEN 1 ELSE ic1
    IN  IF NumNone(<<ic2, w1, h1>>) > 1
        THEN Raise("AssertionError", 327, <<>>)
        ELSE LET w2 == IF w1 = None THEN embedding_dim \div (h1 * ic2) ELSE w1
                 h2 == IF h1 = None THEN embedding_dim \div (w2 * ic2) ELSE h1
                 ic3 == IF ic2 = None THEN embedding_dim \div (w2 * h2) ELSE ic2
             IN  Return(<<ic3, w2, h2>>)

\* Mutant of the resolver: range(1, result_sqrt) instead of
\* range(1, result_sqrt + 1), so floor(sqrt) itself is never tried.
CalculateMissingShapeInformation_RangeOffByOne(embedding_dim, input_channels, width, height) ==
    LET original == <<input_channels, width, height>>
        allNone == input_channels = None /\ width = None /\ height = None
        result_sqrt == FloorSqrt(embedding_dim)
        h1 == IF allNone
              THEN MaxOf({1} \cup {f \in 1..(result_sqrt - 1) : embedding_dim % f = 0})
              ELSE height
        w1 == IF allNone THEN embedding_dim \div h1 ELSE width
        ic1 == IF allNone THEN 1 ELSE input_channels
        ic2 == IF ic1 = None /\ (w1 = None \/ h1 = None) THEN 1 ELSE ic1
    IN  IF NumNone(<<ic2, w1, h1>>) > 1
        THEN Raise("AssertionError", 327, <<>>)
        ELSE LET w2 == IF w1 = None THEN embedding_dim \div (h1 * ic2) ELSE w1
                 h2 == IF h1 = None THEN embedding_dim \div (w2 * ic2) ELSE h1
                 ic3 == IF ic2 = None THEN embedding_dim \div (w2 * h2) ELSE ic2
             IN  IF ic3 * w2 * h2 # embedding_dim
                 THEN Raise("ValueError", 337, <<original, embedding_dim>>)
                 ELSE Return(<<ic3, w2, h2>>)

\* Mutant of the resolver: the divisor search runs over
\* range(1, embedding_dim + 1), without the square root.
CalculateMissingShapeInformation_NoSqrt(embedding_dim, input_channels, width, height) ==
    LET original == <<input_channels, width, height>>
        allNone == input_channels = None /\ width = None /\ height = None
        result_sqrt == FloorSqrt(embedding_dim)
        h1 == IF allNone
              THEN MaxOf({1} \cup {f \in 1..embedding_dim : embedding_dim % f = 0})
              ELSE height
        w1 == IF allNone THEN embedding_dim \div h1 ELSE width
        ic1 == IF allNone THEN 1 ELSE input_channels
        ic2 == IF ic1 = None /\ (w1 = None \/ h1 = None) THEN 1 ELSE ic1
    IN  IF NumNone(<<ic2, w1, h1>>) > 1
        THEN Raise("AssertionError", 327, <<>>)
        ELSE LET w2 == IF w1 = None THEN embedding_dim \div (h1 * ic2) ELSE w1
                 h2 == IF h1 = None THEN embedding_dim \div (w2 * ic2) ELSE h1
                 ic3 == IF ic2 = None THEN embedding_dim \div (w2 * h2) ELSE ic2
             IN  IF ic3 * w2 * h2 # embedding_dim
                 THEN Raise("ValueError", 337, <<original, embedding_dim>>)
                 ELSE Return(<<ic3, w2, h2>>)

\* Mutant of the resolver: the missing width and height are computed from the
\* other spatial factor alone, forgetting input_channels.
CalculateMissingShapeInformation_IgnoreChannels(embedding_dim, input_channels, width, height) ==
    LET original == <<input_channels, width, height>>
        allNone == input_channels = None /\ width = None /\ height = None
        h1 == IF allNone
              THEN MaxOf({f \in 1..FloorSqrt(embedding_dim) : embedding_dim % f = 0})
              ELSE height
        w1 == IF allNone THEN embedding_dim \div h1 ELSE width
        ic1 == IF allNone THEN 1 ELSE input_channels
        ic2 == IF ic1 = None /\ (w1 = None \/ h1 = None) THEN 1 ELSE ic1
    IN  IF NumNone(<<ic2, w1, h1>>) > 1
        THEN Raise("AssertionError", 327, <<>>)
        ELSE LET w2 == IF w1 = None THEN embedding_dim \div h1 ELSE w1
                 h2 == IF h1 = None THEN embedding_dim \div w2 ELSE h1
                 ic3 == IF ic2 = None THEN embedding_dim \div (w2 * h2) ELSE ic2
             IN  IF ic3 * w2 * h2 # embedding_dim
                 THEN Raise("ValueError", 337, <<original, embedding_dim>>)
                 ELSE Return(<<ic3, w2, h2>>)

\* _calculate_missing_shape_information(embedding_dim, input_channels, width,
\* height) -> (input_channels, width, height).  The three blocks of the code
\* reassign the parameters in turn; h1/w1/ic1 are the values after the
\* "all are None" block, ic2 after the defaulting block, w2/h2/ic3 after the
\* three divisions.
CalculateMissingShapeInformation(embedding_dim, input_channels, width, height) ==
    LET original == <<input_channels, width, height>>
        allNone == input_channels = None /\ width = None /\ height = None
        result_sqrt == FloorSqrt(embedding_dim)
        h1 == IF allNone
              THEN MaxOf({f \in 1..result_sqrt : embedding_dim % f = 0})
              ELSE height
        w1 == IF allNone THEN embedding_dim \div h1 ELSE width
        ic1 == IF allNone THEN 1 ELSE input_channels
        ic2 == IF ic1 = None /\ (w1 = None \/ h1 = None) THEN 1 ELSE ic1
    IN  IF NumNone(<<ic2, w1, h1>>) > 1
        THEN Raise("AssertionError", 327, <<>>)
        ELSE LET w2 == IF w1 = None THEN embedding_dim \div (h1 * ic2) ELSE w1
                 h2 == IF h1 = None THEN embedding_dim \div (w2 * ic2) ELSE h1
                 ic3 == IF ic2 = None THEN embedding_dim \div (w2 * h2) ELSE ic2
             IN  IF ic3 * w2 * h2 # embedding_dim
                 THEN Raise("ValueError", 337, <<original, embedding_dim>>)
                 ELSE Return(<<ic3, w2, h2>>)

(***************************************************************************)
(* Tensors: a shape and the elements in row-major order                    *)
(***************************************************************************)
RECURSIVE Prod(_)
Prod(shape) == IF shape = <<>> THEN 1 ELSE Head(shape) * Prod(Tail(shape))

Tensor(shape, data) == [shape |-> shape, data |-> data]

\* torch.arange(1, n + 1).view(shape): the input tensors of the calls; every
\* element differs from every other, so a misplaced element shows
Arange(shape) == Tensor(shape, [k \in 1..Prod(shape) |-> k])

\* x.unsqueeze(dim): a new axis of size 1 at position dim (0-based; a
\* negative dim counts from the end of the result)
Unsqueeze(x, dim) ==
    LET rank == Len(x.shape)
        d == IF dim < 0 THEN dim + rank + 1 ELSE dim
    IN  Tensor(SubSeq(x.shape, 1, d) \o <<1>> \o SubSeq(x.shape, d + 1, rank), x.data)

\* x.squeeze(dim) for 0 <= dim < rank: the axis is removed when its size is
\* 1 and kept otherwise
Squeeze(x, dim) ==
    LET rank == Len(x.shape)
    IN  IF x.shape[dim + 1] = 1
        THEN Tensor(SubSeq(x.shape, 1, dim) \o SubSeq(x.shape, dim + 2, rank), x.data)
        ELSE x

\* x.view(-1, 1)
ViewColumn(x) == Tensor(<<Prod(x.shape), 1>>, x.data)

\* element of x at a 0-based index tuple
RECURSIVE FlatIndex(_, _)
FlatIndex(shape, idx) ==
    IF shape = <<>> THEN 0
    ELSE Head(idx) * Prod(Tail(shape)) + FlatIndex(Tail(shape), Tail(idx))

Elem(x, idx) == x.data[FlatIndex(x.shape, idx) + 1]

(***************************************************************************)
(* InteractionFunction: axis constants and the shape helpers               *)
(***************************************************************************)
BATCH_DIM == 0
NUM_DIM == 1
HEAD_DIM == 1
RELATION_DIM == 2
TAIL_DIM == 3

\* InteractionFunction._check_for_empty_kwargs; kwargs is the set of keyword
\* names passed
CheckForEmptyKwargs(cls, kwargs) ==
    IF Cardinality(kwargs) > 0
    THEN Raise("ValueError", 52, <<cls, kwargs>>)
    ELSE Return(<<>>)

\* InteractionFunction._add_dim(*x, dim): a list for several tensors, the
\* tensor itself for one
AddDim(x, dim) ==
    LET out == [i \in 1..Len(x) |-> Unsqueeze(x[i], dim)]
    IN  IF Len(x) > 1 THEN out ELSE out[1]

\* sorted(dims, reverse=True) for distinct dims
RECURSIVE SortedReverse(_)
SortedReverse(S) ==
    IF S = {} THEN <<>>
    ELSE LET m == MaxOf(S) IN <<m>> \o SortedReverse(S \ {m})

RECURSIVE SqueezeAll(_, _)
SqueezeAll(x, dims) ==
    IF dims = <<>> THEN x ELSE SqueezeAll(Squeeze(x, Head(dims)), Tail(dims))

\* _remove_dim that looks for duplicates among the dims as passed, before
\* the negative ones are normalised
RemoveDim_RawDuplicates(x, dims) ==
    LET rank == Len(x.shape)
        norm == [i \in 1..Len(dims) |-> IF dims[i] >= 0 THEN dims[i] ELSE rank + dims[i]]
        asSet == {norm[i] : i \in 1..Len(norm)}
    IN  IF Cardinality({dims[i] : i \in 1..Len(dims)}) # Len(dims)
        THEN Raise("ValueError", 86, norm)
        ELSE IF ~(\A i \in 1..Len(norm) : 0 <= norm[i] /\ norm[i] < rank)
        THEN Raise("AssertionError", 87, <<>>)
        ELSE Return(SqueezeAll(x, SortedReverse(asSet)))

\* squeezing in the order given: an axis index that is out of range for
\* the tensor squeezed so far raises IndexError
RECURSIVE SqueezeInOrder(_, _)
SqueezeInOrder(x, dims) ==
    IF dims = <<>> THEN Return(x)
    ELSE IF Head(dims) >= Len(x.shape) THEN Raise("IndexError", 89, Head(dims))
    ELSE SqueezeInOrder(Squeeze(x, Head(dims)), Tail(dims))

\* _remove_dim without the descending sort of line 88
RemoveDim_GivenOrder(x, dims) ==
    LET rank == Len(x.shape)
        norm == [i \in 1..Len(dims) |-> IF dims[i] >= 0 THEN dims[i] ELSE rank + dims[i]]
        asSet == {norm[i] : i \in 1..Len(norm)}
    IN  IF Cardinality(asSet) # Len(norm)
        THEN Raise("ValueError", 86, norm)
        ELSE IF ~(\A i \in 1..Len(norm) : 0 <= norm[i] /\ norm[i] < rank)
        THEN Raise("AssertionError", 87, <<>>)
        ELSE SqueezeInOrder(x, norm)

\* InteractionFunction._remove_dim(x, *dims)
RemoveDim(x, dims) ==
    LET rank == Len(x.shape)
        norm == [i \in 1..Len(dims) |-> IF dims[i] >= 0 THEN dims[i] ELSE rank + dims[i]]
        asSet == {norm[i] : i \in 1..Len(norm)}
    IN  IF Cardinality(asSet) # Len(norm)
        THEN Raise("ValueError", 86, norm)
        ELSE IF ~(\A i \in 1..Len(norm) : 0 <= norm[i] /\ norm[i] < rank)
        THEN Raise("AssertionError", 87, <<>>)
        ELSE Return(SqueezeAll(x, SortedReverse(asSet)))

\* ..utils.check_shapes(*(tensor, names)): every tensor has as many axes as
\* its names, and axes that share a name have the same size
CheckShapes(x) ==
    /\ \A i \in 1..Len(x) : Len(x[i][1].shape) = Len(x[i][2])
    /\ \A i, j \in 1..Len(x) :
         \A a \in 1..Len(x[i][2]), c \in 1..Len(x[j][2]) :
            x[i][2][a] = x[j][2][c] => x[i][1].shape[a] = x[j][1].shape[c]

(***************************************************************************)
(* The numeric kernels pkf.*_interaction                                   *)
(***************************************************************************)
RECURSIVE SumSeq(_)
SumSeq(q) == IF q = <<>> THEN 0 ELSE Head(q) + SumSeq(Tail(q))

\* sum over the feature axis of row (i, a) of a (batch, num, feature)
\* tensor, a batch axis of size 1 being broadcast
RowSum(x, i, a) ==
    LET ii == IF x.shape[1] = 1 THEN 0 ELSE i
        F == x.shape[3]
        base == (ii * x.shape[2] + a) * F
    IN  SumSeq([f \in 1..F |-> x.data[base + f]])

\* A kernel on h (batch, num_heads, d_e), r (batch, num_relations, d_r),
\* t (batch, num_tails, d_e): one score per (batch, head, relation, tail).
Kernel(h, r, t) ==
    LET b == MaxOf({h.shape[1], r.shape[1], t.shape[1]})
        nh == h.shape[2]
        nr == r.shape[2]
        nt == t.shape[2]
        score(k) ==
            LET e == (k - 1) % nt
                c == ((k - 1) \div nt) % nr
                a == ((k - 1) \div (nt * nr)) % nh
                i == (k - 1) \div (nt * nr * nh)
            IN  RowSum(h, i, a) + RowSum(r, i, c) - RowSum(t, i, e)
    IN  Tensor(<<b, nh, nr, nt>>, [k \in 1..(b * nh * nr * nt) |-> score(k)])

\* The kernel of the unstructured model, which is handed h and t only: the
\* relation axis of its result has size 1 and no relation term enters the
\* score.
KernelHT(h, t) == Kernel(h, Tensor(<<1, 1, 1>>, <<0>>), t)

\* the outcome of forward: how it ended and how often it entered a kernel
Fwd(r, k) == [ret |-> r, kernel |-> k]

(***************************************************************************)
(* The concrete interaction functions                                      *)
(*                                                                         *)
(* self is the instance record, kwargs the set of keyword names passed as  *)
(* **kwargs.  NTNInteractionFunction and KG2EInteraction are left out:     *)
(* their forward bodies are not part of the source at hand.                *)
(***************************************************************************)
StatelessClasses == {"ComplEx", "DistMult", "RotatE", "HolE", "RESCAL"}

PlainClasses == StatelessClasses \cup
    {"TransE", "ConvKB", "ERMLP", "ERMLPE", "TransR", "ProjE",
     "StructuredEmbedding", "Tucker", "UnstructuredModel", "TransD"}

Classes == PlainClasses \cup {"ConvE"}

\* Mutant of the stateless forward: the kwargs check is missing, as it is in
\* ConvKBInteractionFunction.forward.
StatelessForward_NoCheck(self, h, r, t, kwargs) ==
    Fwd(Return(Kernel(h, r, t)), 1)

\* _build_module_from_stateless(f).forward
StatelessForward(self, h, r, t, kwargs) ==
    LET chk == CheckForEmptyKwargs(self.cls, kwargs)
    IN  IF ~chk.ok THEN Fwd(chk, 0)
        ELSE Fwd(Return(Kernel(h, r, t)), 1)

\* TransEInteractionFunction.forward
TransEForward(self, h, r, t, kwargs) ==
    LET chk == CheckForEmptyKwargs(self.cls, kwargs)
    IN  IF ~chk.ok THEN Fwd(chk, 0)
        ELSE Fwd(Return(Kernel(h, r, t)), 1)

\* Mutant of ConvE's forward: the leftover-kwargs check runs on the whole
\* mapping before t_bias is looked up.
ConvEForward_CheckFirst(self, h, r, t, kwargs) ==
    LET chk == CheckForEmptyKwargs(self.cls, kwargs \ {"t_bias"})
    IN  IF ~chk.ok THEN Fwd(chk, 0)
        ELSE IF "t_bias" \notin kwargs
        THEN Fwd(Raise("TypeError", 425, <<self.cls, "t_bias">>), 0)
        ELSE Fwd(Return(Kernel(h, r, t)), 1)

\* ConvEInteractionFunction.forward
ConvEForward(self, h, r, t, kwargs) ==
    IF "t_bias" \notin kwargs
    THEN Fwd(Raise("TypeError", 425, <<self.cls, "t_bias">>), 0)
    ELSE LET rest == kwargs \ {"t_bias"}
             chk == CheckForEmptyKwargs(self.cls, rest)
         IN  IF ~chk.ok THEN Fwd(chk, 0)
             ELSE Fwd(Return(Kernel(h, r, t)), 1)

\* ConvKBInteractionFunction.forward: kwargs is never looked at
ConvKBForward(self, h, r, t, kwargs) ==
    Fwd(Return(Kernel(h, r, t)), 1)

\* ERMLPInteractionFunction.forward
ERMLPForward(self, h, r, t, kwargs) ==
    LET chk == CheckForEmptyKwargs(self.cls, kwargs)
    IN  IF ~chk.ok THEN Fwd(chk, 0)
        ELSE Fwd(Return(Kernel(h, r, t)), 1)

\* ERMLPEInteractionFunction.forward
ERMLPEForward(self, h, r, t, kwargs) ==
    LET chk == CheckForEmptyKwargs(self.cls, kwargs)
    IN  IF ~chk.ok THEN Fwd(chk, 0)
        ELSE Fwd(Return(Kernel(h, r, t)), 1)

\* TransRInteractionFunction.forward: kwargs.pop('m_r') raises KeyError
\* when m_r is missing
TransRForward(self, h, r, t, kwargs) ==
    IF "m_r" \notin kwargs
    THEN Fwd(Raise("KeyError", 607, "m_r"), 0)
    ELSE LET chk == CheckForEmptyKwargs(self.cls, kwargs \ {"m_r"})
         IN  IF ~chk.ok THEN Fwd(chk, 0)
             ELSE Fwd(Return(Kernel(h, r, t)), 1)

\* ProjEInteractionFunction.forward: the kernel's scores are flattened to a
\* single column by .view(-1, 1)
ProjEForward(self, h, r, t, kwargs) ==
    LET chk == CheckForEmptyKwargs(self.cls, kwargs)
    IN  IF ~chk.ok THEN Fwd(chk, 0)
        ELSE Fwd(Return(ViewColumn(Kernel(h, r, t))), 1)

\* StructuredEmbeddingInteractionFunction.forward: r.split(dim ** 2, dim=-1)
\* must give exactly the two chunks rh, rt, and each must be viewable as
\* (dim, dim); kwargs is never looked at
StructuredEmbeddingForward(self, h, r, t, kwargs) ==
    LET dim == h.shape[Len(h.shape)]
        d_r == r.shape[Len(r.shape)]
        chunks == (d_r + dim * dim - 1) \div (dim * dim)
    IN  IF chunks # 2
        THEN Fwd(Raise("ValueError", 681, chunks), 0)
        ELSE IF d_r - dim * dim # dim * dim
        THEN Fwd(Raise("RuntimeError", 683, d_r - dim * dim), 0)
        ELSE Fwd(Return(Kernel(h, r, t)), 1)

\* TuckerInteractionFunction.forward
TuckerForward(self, h, r, t, kwargs) ==
    LET chk == CheckForEmptyKwargs(self.cls, kwargs)
    IN  IF ~chk.ok THEN Fwd(chk, 0)
        ELSE Fwd(Return(Kernel(h, r, t)), 1)

\* UnstructuredModelInteractionFunction.forward: r is not passed on to the
\* kernel (line 770)
UnstructuredModelForward(self, h, r, t, kwargs) ==
    LET chk == CheckForEmptyKwargs(self.cls, kwargs)
    IN  IF ~chk.ok THEN Fwd(chk, 0)
        ELSE Fwd(Return(KernelHT(h, t)), 1)

\* TransDInteractionFunction.forward: the three pops in order, no
\* leftover-kwargs check
TransDForward(self, h, r, t, kwargs) ==
    IF "h_p" \notin kwargs THEN Fwd(Raise("KeyError", 783, "h_p"), 0)
    ELSE IF "r_p" \notin kwargs THEN Fwd(Raise("KeyError", 784, "r_p"), 0)
    ELSE IF "t_p" \notin kwargs THEN Fwd(Raise("KeyError", 785, "t_p"), 0)
    ELSE Fwd(Return(Kernel(h, r, t)), 1)

\* self(h=h, r=r, t=t, **kwargs): nn.Module.__call__ dispatches to the
\* forward of the instance's class
Forward(self, h, r, t, kwargs) ==
    CASE self.cls \in StatelessClasses -> StatelessForward(self, h, r, t, kwargs)
      [] self.cls = "TransE" -> TransEForward(self, h, r, t, kwargs)
      [] self.cls = "ConvE" -> ConvEForward(self, h, r, t, kwargs)
      [] self.cls = "ConvKB" -> ConvKBForward(self, h, r, t, kwargs)
      [] self.cls = "ERMLP" -> ERMLPForward(self, h, r, t, kwargs)
      [] self.cls = "ERMLPE" -> ERMLPEForward(self, h, r, t, kwargs)
      [] self.cls = "TransR" -> TransRForward(self, h, r, t, kwargs)
      [] self.cls = "ProjE" -> ProjEForward(self, h, r, t, kwargs)
      [] self.cls = "StructuredEmbedding" -> StructuredEmbeddingForward(self, h, r, t, kwargs)
      [] self.cls = "Tucker" -> TuckerForward(self, h, r, t, kwargs)
      [] self.cls = "UnstructuredModel" -> UnstructuredModelForward(self, h, r, t, kwargs)
      [] self.cls = "TransD" -> TransDForward(self, h, r, t, kwargs)

(***************************************************************************)
(* The scoring entry points                                                *)
(***************************************************************************)
\* the outcome of a scoring call: how it ended, how often it entered
\* forward and how often a kernel
Scored(r, f, k) == [ret |-> r, fwd |-> f, kernel |-> k]

\* score_hrt with the shape check placed after the call of forward
ScoreHrt_CheckAfterForward(self, h, r, t) ==
    IF ~CheckShapes(<< <<h, <<"b", "e">> >>, <<r, <<"b", "r">> >>, <<t, <<"b", "e">> >> >>)
    THEN Scored(Raise("ShapeMismatch", 114, <<h.shape, r.shape, t.shape>>), 1, 1)
    ELSE LET hrt == AddDim(<<h, r, t>>, NUM_DIM)
             scores == Forward(self, hrt[1], hrt[2], hrt[3], {})
         IN  IF ~scores.ret.ok THEN Scored(scores.ret, 1, scores.kernel)
             ELSE LET removed == RemoveDim(scores.ret.val, <<HEAD_DIM, RELATION_DIM, TAIL_DIM>>)
                  IN  IF ~removed.ok THEN Scored(removed, 1, scores.kernel)
                      ELSE Scored(Return(Unsqueeze(removed.val, -1)), 1, scores.kernel)

\* InteractionFunction.score_hrt
ScoreHrt(self, h, r, t) ==
    IF ~CheckShapes(<< <<h, <<"b", "e">> >>, <<r, <<"b", "r">> >>, <<t, <<"b", "e">> >> >>)
    THEN Scored(Raise("ShapeMismatch", 114, <<h.shape, r.shape, t.shape>>), 0, 0)
    ELSE LET hrt == AddDim(<<h, r, t>>, NUM_DIM)
             scores == Forward(self, hrt[1], hrt[2], hrt[3], {})
         IN  IF ~scores.ret.ok THEN Scored(scores.ret, 1, scores.kernel)
             ELSE LET removed == RemoveDim(scores.ret.val, <<HEAD_DIM, RELATION_DIM, TAIL_DIM>>)
                  IN  IF ~removed.ok THEN Scored(removed, 1, scores.kernel)
                      ELSE Scored(Return(Unsqueeze(removed.val, -1)), 1, scores.kernel)

\* InteractionFunction.score_h: the call of line 155 passes **kwargs, a name
\* that is neither a parameter nor a global, so evaluating the call's
\* arguments raises NameError before forward is entered
ScoreH(self, all_entities, r, t) ==
    IF ~CheckShapes(<< <<all_entities, <<"n", "e">> >>, <<r, <<"b", "r">> >>, <<t, <<"b", "e">> >> >>)
    THEN Scored(Raise("ShapeMismatch", 147, <<all_entities.shape, r.shape, t.shape>>), 0, 0)
    ELSE LET rt == AddDim(<<r, t>>, NUM_DIM)
             h == AddDim(<<all_entities>>, BATCH_DIM)
         IN  Scored(Raise("NameError", 155, "kwargs"), 0, 0)

\* InteractionFunction.score_r: NameError at line 189, as in score_h
ScoreR(self, h, all_relations, t) ==
    IF ~CheckShapes(<< <<all_relations, <<"n", "r">> >>, <<h, <<"b", "e">> >>, <<t, <<"b", "e">> >> >>)
    THEN Scored(Raise("ShapeMismatch", 182, <<h.shape, all_relations.shape, t.shape>>), 0, 0)
    ELSE LET ht == AddDim(<<h, t>>, NUM_DIM)
             r == AddDim(<<all_relations>>, BATCH_DIM)
         IN  Scored(Raise("NameError", 189, "kwargs"), 0, 0)

\* InteractionFunction.score_t: NameError at line 223, as in score_h
ScoreT(self, h, r, all_entities) ==
    IF ~CheckShapes(<< <<all_entities, <<"n", "e">> >>, <<r, <<"b", "r">> >>, <<h, <<"b", "e">> >> >>)
    THEN Scored(Raise("ShapeMismatch", 216, <<h.shape, r.shape, all_entities.shape>>), 0, 0)
    ELSE LET hr == AddDim(<<h, r>>, NUM_DIM)
             t == AddDim(<<all_entities>>, BATCH_DIM)
         IN  Scored(Raise("NameError", 223, "kwargs"), 0, 0)

(***************************************************************************)
(* Construction                                                            *)
(***************************************************************************)
\* ConvEInteractionFunction.__init__ defaults
DefaultOutputChannels == 32
DefaultKernelHeight == 3
DefaultKernelWidth == 3

DefaultApplyBatchNormalization == TRUE

\* The torch layers: the learned parameters a layer of each kind registers,
\* and whether the kind defines reset_parameters.
TorchParameters(kind) ==
    IF kind \in {"Conv2d", "Linear", "BatchNorm"} THEN {"weight", "bias"} ELSE {}

HasResetParameters(kind) == kind \in {"Conv2d", "Linear", "BatchNorm"}

Layer(name, kind) == [name |-> name, kind |-> kind]

\* self.modules() without self: the layers the constructor of each class
\* registers, the children of a Sequential included
Modules(self) ==
    CASE self.cls = "ConvE" ->
            {Layer("inp_drop", "Dropout"), Layer("hidden_drop", "Dropout"),
             Layer("feature_map_drop", "Dropout"), Layer("conv1", "Conv2d"),
             Layer("fc", "Linear"), Layer("activation", "ReLU")}
            \cup (IF self.apply_batch_normalization
                  THEN {Layer("bn0", "BatchNorm"), Layer("bn1", "BatchNorm"),
                        Layer("bn2", "BatchNorm")}
                  ELSE {})
      [] self.cls = "ConvKB" ->
            {Layer("conv", "Conv2d"), Layer("activation", "ReLU"),
             Layer("hidden_dropout", "Dropout"), Layer("linear", "Linear")}
      [] self.cls = "ERMLP" ->
            {Layer("hidden", "Linear"), Layer("activation", "ReLU"),
             Layer("hidden_to_score", "Linear")}
      [] self.cls = "ERMLPE" ->
            {Layer("mlp", "Sequential"), Layer("mlp.0", "Dropout"),
             Layer("mlp.1", "Linear"), Layer("mlp.2", "Dropout"),
             Layer("mlp.3", "BatchNorm"), Layer("mlp.4", "ReLU"),
             Layer("mlp.5", "Linear"), Layer("mlp.6", "Dropout"),
             Layer("mlp.7", "BatchNorm"), Layer("mlp.8", "ReLU")}
      [] self.cls = "ProjE" -> {Layer("inner_non_linearity", "Tanh")}
      [] self.cls = "Tucker" ->
            {Layer("input_dropout", "Dropout"), Layer("hidden_dropout_1", "Dropout"),
             Layer("hidden_dropout_2", "Dropout")}
            \cup (IF self.apply_batch_normalization
                  THEN {Layer("bn1", "BatchNorm"), Layer("bn2", "BatchNorm")}
                  ELSE {})
      [] OTHER -> {}

\* the nn.Parameter attributes of the instance itself, created by
\* torch.empty and so without a defined value until they are initialised
DirectParameters(self) ==
    CASE self.cls = "ProjE" -> {<<"self", "d_e">>, <<"self", "d_r">>,
                                 <<"self", "b_c">>, <<"self", "b_p">>}
      [] self.cls = "Tucker" -> {<<"self", "core_tensor">>}
      [] OTHER -> {}

LayerParameters(m) == {<<m.name, p>> : p \in TorchParameters(m.kind)}

\* self.parameters(): the instance's own parameters and those of its layers
Parameters(self) ==
    DirectParameters(self) \cup UNION {LayerParameters(m) : m \in Modules(self)}

\* the parameters after __init__: a torch layer initialises its own on
\* construction, torch.empty leaves the direct ones uninitialised
InitialParameters(self) ==
    [p \in Parameters(self) |-> IF p \in DirectParameters(self) THEN "empty" ELSE "default"]

\* the instance after an initialiser has written the named parameters
Initialized(self, names) ==
    [self EXCEPT !.params = [p \in DOMAIN @ |-> IF p \in names THEN "reset" ELSE @[p]]]

\* InteractionFunction.reset_parameters: every layer that defines
\* reset_parameters resets its own parameters
BaseResetParameters(self) ==
    Initialized(self, UNION {LayerParameters(m) : m \in {n \in Modules(self) :
                                                         HasResetParameters(n.kind)}})

ConvKBResetParameters(self) ==
    Initialized(self, {<<"linear", "weight">>, <<"linear", "bias">>,
                       <<"conv", "weight">>, <<"conv", "bias">>})

ERMLPResetParameters(self) ==
    Initialized(self, {<<"hidden", "bias">>, <<"hidden_to_score", "bias">>,
                       <<"hidden", "weight">>, <<"hidden_to_score", "weight">>})

ProjEResetParameters(self) == Initialized(self, Parameters(self))

TuckerResetParameters(self) == Initialized(self, {<<"self", "core_tensor">>})

\* self.reset_parameters(): the override of the class, else the base method
ResetParameters(self) ==
    CASE self.cls = "ConvKB" -> ConvKBResetParameters(self)
      [] self.cls = "ERMLP" -> ERMLPResetParameters(self)
      [] self.cls = "ProjE" -> ProjEResetParameters(self)
      [] self.cls = "Tucker" -> TuckerResetParameters(self)
      [] OTHER -> BaseResetParameters(self)

\* the instance record of a class right after its constructor
WithParameters(fields) == [params |-> InitialParameters(fields)] @@ fields

\* ConvEInit without either consistency check: factors that are given are
\* stored as given, a missing one is taken as 1
ConvEInit_Unchecked(input_channels, embedding_height, embedding_width, embedding_dim) ==
    IF embedding_dim = None /\ NumNone(<<input_channels, embedding_width, embedding_height>>) > 0
    THEN Raise("TypeError", 364, <<input_channels, embedding_width, embedding_height>>)
    ELSE LET ic == IF input_channels = None THEN 1 ELSE input_channels
             w == IF embedding_width = None THEN 1 ELSE embedding_width
             ht == IF embedding_height = None THEN 1 ELSE embedding_height
             dim == IF embedding_dim = None THEN ic * w * ht ELSE embedding_dim
         IN  Return(WithParameters(
                 [cls |-> "ConvE",
                  embedding_dim |-> dim,
                  embedding_height |-> ht,
                  embedding_width |-> w,
                  input_channels |-> ic,
                  apply_batch_normalization |-> DefaultApplyBatchNormalization,
                  num_in_features |-> DefaultOutputChannels
                                      * (2 * ht - DefaultKernelHeight + 1)
                                      * (w - DefaultKernelWidth + 1)]))

\* ConvEInteractionFunction.__init__(input_channels, embedding_height,
\* embedding_width, embedding_dim) with the other parameters at their
\* defaults; nn.Linear raises on a negative number of input features
ConvEInit(input_channels, embedding_height, embedding_width, embedding_dim) ==
    IF embedding_dim = None /\ NumNone(<<input_channels, embedding_width, embedding_height>>) > 0
    THEN Raise("TypeError", 364, <<input_channels, embedding_width, embedding_height>>)
    ELSE LET dim == IF embedding_dim = None
                    THEN input_channels * embedding_width * embedding_height
                    ELSE embedding_dim
             resolved == CalculateMissingShapeInformation(dim, input_channels,
                                                          embedding_width, embedding_height)
         IN  IF ~resolved.ok THEN resolved
             ELSE LET ic == resolved.val[1]
                      w == resolved.val[2]
                      ht == resolved.val[3]
                  IN  IF ic * ht * w # dim
                      THEN Raise("ValueError", 381, <<ic, ht, w, dim>>)
                      ELSE LET num_in_features ==
                                   DefaultOutputChannels
                                   * (2 * ht - DefaultKernelHeight + 1)
                                   * (w - DefaultKernelWidth + 1)
                           IN  IF num_in_features < 0
                               THEN Raise("RuntimeError", 413, num_in_features)
                               ELSE Return(WithParameters(
                                        [cls |-> "ConvE",
                                         embedding_dim |-> dim,
                                         embedding_height |-> ht,
                                         embedding_width |-> w,
                                         input_channels |-> ic,
                                         apply_batch_normalization |->
                                             DefaultApplyBatchNormalization,
                                         num_in_features |-> num_in_features]))

(***************************************************************************)
(* SpecShape: the resolver called on its own                               *)
(***************************************************************************)
NoInstance == [cls |-> "none"]

\* embedding dimensions and optional factors the resolver is called with
ShapeDims == (1..MaxDim) \cup {DefaultEmbeddingDim}
OptFactors == {None} \cup (1..MaxFactor)

Init ==
    /\ inst = NoInstance
    /\ op = "none"
    /\ args = <<>>
    /\ ret = NoCall
    /\ fwdCalls = 0
    /\ kernelCalls = 0

\* no call is in progress: the caller holds no pending result
Idle == op = "none"

\* the caller takes the returned value or the exception of the last call;
\* the instance stays as it is
Done ==
    /\ ~Idle
    /\ op' = "none"
    /\ args' = <<>>
    /\ ret' = NoCall
    /\ fwdCalls' = 0
    /\ kernelCalls' = 0
    /\ UNCHANGED inst

CalculateShape(embedding_dim, input_channels, width, height) ==
    /\ op' = "_calculate_missing_shape_information"
    /\ args' = [embedding_dim |-> embedding_dim, input_channels |-> input_channels,
                width |-> width, height |-> height]
    /\ ret' = CalculateMissingShapeInformation(embedding_dim, input_channels, width, height)
    /\ UNCHANGED <<inst, fwdCalls, kernelCalls>>

\* the resolver is called while no call is in progress
ResolveStep ==
    /\ Idle
    /\ \E embedding_dim \in ShapeDims, input_channels \in OptFactors,
          width \in OptFactors, height \in OptFactors :
           CalculateShape(embedding_dim, input_channels, width, height)

NextShape == ResolveStep \/ Done

SpecShape == Init /\ [][NextShape]_vars

(***************************************************************************)
(* SpecDims: the static helper _remove_dim called on its own               *)
(***************************************************************************)
\* sizes of an axis: one that squeeze removes and one that it keeps
AxisSizes == {1, 2}

\* sequences over S of length lo..hi
SeqsOf(S, lo, hi) == UNION {[1..n -> S] : n \in lo..hi}

\* the tensors of 1 to MaxRank axes
RankedTensors == {Arange(shape) : shape \in SeqsOf(AxisSizes, 1, MaxRank)}

\* axis indices for a tensor of the given rank: every valid index, negative
\* ones included, and one beyond the range at either end
AxisIndices(rank) == (-(rank + 1))..rank

CallRemoveDim(x, dims) ==
    /\ op' = "_remove_dim"
    /\ args' = [x |-> x, dims |-> dims]
    /\ ret' = RemoveDim(x, dims)
    /\ UNCHANGED <<inst, fwdCalls, kernelCalls>>

RemoveDimStep ==
    /\ Idle
    /\ \E x \in RankedTensors :
         \E dims \in SeqsOf(AxisIndices(Len(x.shape)), 0, MaxDims) :
            CallRemoveDim(x, dims)

NextDims == RemoveDimStep \/ Done

SpecDims == Init /\ [][NextDims]_vars

(***************************************************************************)
(* Spec: an interaction function is constructed and called                 *)
(***************************************************************************)
\* sizes of the feature axes of the representations
FeatureDims == {1, 2}

\* keyword names a caller may pass to forward: the extras the variants
\* declare and one that no variant declares
Keywords == {"t_bias", "m_r", "h_p", "r_p", "t_p", "extra"}

Constructed == inst.cls # "none"

\* cls() for the classes whose constructor arguments do not reach the state
\* the calls read
Construct(cls) ==
    /\ op' = "__init__"
    /\ args' = [cls |-> cls]
    /\ inst' = WithParameters([cls |-> cls])
    /\ ret' = Return(cls)
    /\ UNCHANGED <<fwdCalls, kernelCalls>>

\* TuckerInteractionFunction(apply_batch_normalization=...)
ConstructTucker(apply_batch_normalization) ==
    /\ op' = "__init__"
    /\ args' = [cls |-> "Tucker", apply_batch_normalization |-> apply_batch_normalization]
    /\ inst' = WithParameters([cls |-> "Tucker",
                               apply_batch_normalization |-> apply_batch_normalization])
    /\ ret' = Return("Tucker")
    /\ UNCHANGED <<fwdCalls, kernelCalls>>

\* ConvEInteractionFunction(input_channels, embedding_height,
\* embedding_width, embedding_dim): no instance exists when __init__ raises
ConstructConvE(input_channels, embedding_height, embedding_width, embedding_dim) ==
    /\ op' = "__init__"
    /\ args' = [cls |-> "ConvE", input_channels |-> input_channels,
                embedding_height |-> embedding_height,
                embedding_width |-> embedding_width, embedding_dim |-> embedding_dim]
    /\ LET made == ConvEInit(input_channels, embedding_height, embedding_width, embedding_dim)
       IN  /\ ret' = IF made.ok THEN Return("ConvE") ELSE made
           /\ inst' = IF made.ok THEN made.val ELSE inst
    /\ UNCHANGED <<fwdCalls, kernelCalls>>

\* inst.forward(h, r, t, **kwargs)
CallForward(h, r, t, kwargs) ==
    /\ op' = "forward"
    /\ args' = [h |-> h, r |-> r, t |-> t, kwargs |-> kwargs]
    /\ LET out == Forward(inst, h, r, t, kwargs)
       IN  /\ ret' = out.ret
           /\ kernelCalls' = out.kernel
    /\ fwdCalls' = 1
    /\ UNCHANGED inst

\* inst.reset_parameters(): returns nothing, rewrites parameters in place
CallResetParameters ==
    /\ op' = "reset_parameters"
    /\ args' = <<>>
    /\ inst' = ResetParameters(inst)
    /\ ret' = Return(None)
    /\ UNCHANGED <<fwdCalls, kernelCalls>>

\* inst.score_hrt(h, r, t)
CallScoreHrt(h, r, t) ==
    /\ op' = "score_hrt"
    /\ args' = [h |-> h, r |-> r, t |-> t]
    /\ LET out == ScoreHrt(inst, h, r, t)
       IN  /\ ret' = out.ret
           /\ fwdCalls' = out.fwd
           /\ kernelCalls' = out.kernel
    /\ UNCHANGED inst

\* inst.score_h(all_entities, r, t)
CallScoreH(all_entities, r, t) ==
    /\ op' = "score_h"
    /\ args' = [all_entities |-> all_entities, r |-> r, t |-> t]
    /\ LET out == ScoreH(inst, all_entities, r, t)
       IN  /\ ret' = out.ret
           /\ fwdCalls' = out.fwd
           /\ kernelCalls' = out.kernel
    /\ UNCHANGED inst

\* inst.score_r(h, all_relations, t)
CallScoreR(h, all_relations, t) ==
    /\ op' = "score_r"
    /\ args' = [h |-> h, all_relations |-> all_relations, t |-> t]
    /\ LET out == ScoreR(inst, h, all_relations, t)
       IN  /\ ret' = out.ret
           /\ fwdCalls' = out.fwd
           /\ kernelCalls' = out.kernel
    /\ UNCHANGED inst

\* inst.score_t(h, r, all_entities)
CallScoreT(h, r, all_entities) ==
    /\ op' = "score_t"
    /\ args' = [h |-> h, r |-> r, all_entities |-> all_entities]
    /\ LET out == ScoreT(inst, h, r, all_entities)
       IN  /\ ret' = out.ret
           /\ fwdCalls' = out.fwd
           /\ kernelCalls' = out.kernel
    /\ UNCHANGED inst

\* the argument sets of the calls
BatchSizes == 1..MaxBatch
NumSizes == 1..MaxNum
GeomFactors == {None} \cup (1..MaxGeom)
EmbDims == {None} \cup (1..MaxEmbDim)

\* a representation of shape (rows, feature)
Matrices(rows) == {Arange(<<n, d>>) : n \in rows, d \in FeatureDims}

\* an instance is constructed once, before any call on it
ConstructStep ==
    /\ Idle /\ ~Constructed
    /\ \/ \E cls \in PlainClasses \ {"Tucker"} : Construct(cls)
       \/ \E apply_batch_normalization \in BOOLEAN : ConstructTucker(apply_batch_normalization)
       \/ \E input_channels \in GeomFactors, embedding_height \in GeomFactors,
             embedding_width \in GeomFactors, embedding_dim \in EmbDims :
              ConstructConvE(input_channels, embedding_height, embedding_width, embedding_dim)

\* the calls on the instance, one at a time
ForwardStep ==
    /\ Idle /\ Constructed
    /\ \E b \in BatchSizes, nh \in NumSizes, nr \in NumSizes, nt \in NumSizes,
          d_e \in FeatureDims, d_r \in FeatureDims, kwargs \in SUBSET Keywords :
           CallForward(Arange(<<b, nh, d_e>>), Arange(<<b, nr, d_r>>),
                       Arange(<<b, nt, d_e>>), kwargs)

ResetParametersStep ==
    /\ Idle /\ Constructed
    /\ CallResetParameters

ScoreHrtStep ==
    /\ Idle /\ Constructed
    /\ \E h \in Matrices(BatchSizes), r \in Matrices(BatchSizes), t \in Matrices(BatchSizes) :
           CallScoreHrt(h, r, t)

ScoreHStep ==
    /\ Idle /\ Constructed
    /\ \E all_entities \in Matrices(NumSizes), r \in Matrices(BatchSizes),
          t \in Matrices(BatchSizes) :
           CallScoreH(all_entities, r, t)

ScoreRStep ==
    /\ Idle /\ Constructed
    /\ \E h \in Matrices(BatchSizes), all_relations \in Matrices(NumSizes),
          t \in Matrices(BatchSizes) :
           CallScoreR(h, all_relations, t)

ScoreTStep ==
    /\ Idle /\ Constructed
    /\ \E h \in Matrices(BatchSizes), r \in Matrices(BatchSizes),
          all_entities \in Matrices(NumSizes) :
           CallScoreT(h, r, all_entities)

Next ==
    \/ ConstructStep
    \/ ForwardStep
    \/ ResetParametersStep
    \/ ScoreHrtStep
    \/ ScoreHStep
    \/ ScoreRStep
    \/ ScoreTStep
    \/ Done

Spec == Init /\ [][Next]_vars

(***************************************************************************)
(* Properties of the resolver, checked under SpecShape                     *)
(***************************************************************************)
ShapeCalled == op = "_calculate_missing_shape_information"

\* input_channels after the defaulting block (line 323), as the
\* specification states it: it defaults to 1 when it is unset together
\* with width or height.
DefaultedChannels(a) ==
    IF a.input_channels = None /\ (a.width = None \/ a.height = None)
    THEN 1 ELSE a.input_channels

AllUnset(a) == a.input_channels = None /\ a.width = None /\ a.height = None

\* the factors left unset after defaulting; none when all three were unset,
\* since the first block then fills all of them
UnsetAfterDefaulting(a) ==
    IF AllUnset(a) THEN 0
    ELSE NumNone(<<DefaultedChannels(a), a.width, a.height>>)

\* product of the factors that are set after defaulting
GivenProduct(a) ==
    LET f == <<DefaultedChannels(a), a.width, a.height>>
        g == [i \in 1..3 |-> IF f[i] = None THEN 1 ELSE f[i]]
    IN  g[1] * g[2] * g[3]

\* C1: whenever the resolver returns a triple instead of raising, all three
\* entries are integers (none is left unset) and
\* input_channels * width * height = embedding_dim.
C1_ReturnedTripleIsFactorization ==
    (ShapeCalled /\ ret.ok) =>
        /\ Len(ret.val) = 3
        /\ \A i \in 1..3 : ret.val[i] \in Int /\ ret.val[i] # None
        /\ ret.val[1] * ret.val[2] * ret.val[3] = args.embedding_dim

\* C1 witness: a call with a missing width and a given channel count and
\* height returned a completed triple.
C1_Witness ==
    /\ ShapeCalled /\ ret.ok
    /\ args.width = None /\ args.input_channels = 2 /\ args.height = 3
    /\ args.embedding_dim = 12
    /\ ret.val = <<2, 2, 3>>

\* C2: with all three factors unset the resolver returns input_channels = 1,
\* height = the largest divisor of embedding_dim not exceeding
\* floor(sqrt(embedding_dim)) and width = embedding_dim / height;
\* embedding_dim = 200 gives height 10 and width 20.
C2_AllUnsetNearSquare ==
    (ShapeCalled /\ AllUnset(args)) =>
        /\ ret.ok
        /\ ret.val[1] = 1
        /\ LET d == args.embedding_dim
               height == ret.val[3]
               width == ret.val[2]
           IN  /\ height \in 1..d
               /\ d % height = 0
               /\ height * height <= d
               /\ \A f \in 1..d : (d % f = 0 /\ f * f <= d) => f <= height
               /\ width * height = d
               /\ d = 200 => (height = 10 /\ width = 20)

\* C2 witness: the all-unset call for embedding_dim = 200 returned (1, 20, 10).
C2_Witness ==
    /\ ShapeCalled /\ AllUnset(args)
    /\ args.embedding_dim = 200
    /\ ret.ok /\ ret.val = <<1, 20, 10>>

\* C3: when exactly one factor is unset after defaulting and the product of
\* the two set factors divides embedding_dim, the resolver returns the two
\* set factors unchanged in their positions and the missing one as
\* embedding_dim divided by their product; embedding_dim = 200,
\* input_channels = 2, width = 10 gives height = 10.
C3_SingleMissingFactor ==
    (/\ ShapeCalled
     /\ UnsetAfterDefaulting(args) = 1
     /\ args.embedding_dim % GivenProduct(args) = 0) =>
        LET f == <<DefaultedChannels(args), args.width, args.height>>
            q == args.embedding_dim \div GivenProduct(args)
        IN  /\ ret.ok
            /\ \A i \in 1..3 : ret.val[i] = IF f[i] = None THEN q ELSE f[i]
            /\ (args.embedding_dim = 200 /\ args.input_channels = 2 /\ args.width = 10
                    /\ args.height = None) => ret.val[3] = 10

\* C3 witness: embedding_dim = 200, input_channels = 2, width = 10 and no
\* height returned (2, 10, 10).
C3_Witness ==
    /\ ShapeCalled
    /\ args.embedding_dim = 200 /\ args.input_channels = 2
    /\ args.width = 10 /\ args.height = None
    /\ ret.ok /\ ret.val = <<2, 10, 10>>

\* the call ended with the factorization error of line 337, carrying the
\* original inputs and embedding_dim
FactorizationError ==
    /\ ~ret.ok
    /\ ret.type = "ValueError" /\ ret.line = 337
    /\ ret.val = <<<<args.input_channels, args.width, args.height>>, args.embedding_dim>>

\* no exact completion exists: with one factor unset the product of the
\* other two does not divide embedding_dim, with none unset the product
\* differs from embedding_dim
FinalProductDiffers(a) ==
    \/ UnsetAfterDefaulting(a) = 1 /\ a.embedding_dim % GivenProduct(a) # 0
    \/ UnsetAfterDefaulting(a) = 0 /\ ~AllUnset(a) /\ GivenProduct(a) # a.embedding_dim

\* C4: the resolver fails with the factorization error, the same error kind
\* in both cases, whenever more than one factor remains unset after
\* defaulting or the final product differs from embedding_dim; in
\* particular for embedding_dim = 7, input_channels = 2, width and height
\* unset.
C4_FactorizationErrorInBothCases ==
    (ShapeCalled /\ (UnsetAfterDefaulting(args) > 1 \/ FinalProductDiffers(args))) =>
        FactorizationError

(***************************************************************************)
(* Properties of the interaction functions, checked under Spec             *)
(***************************************************************************)
\* the error of _check_for_empty_kwargs (line 52)
UnexpectedArgument(e) == ~e.ok /\ e.type = "ValueError" /\ e.line = 52

\* the error of ConvE's forward for a missing t_bias (line 425)
MissingRequiredArgument(e) == ~e.ok /\ e.type = "TypeError" /\ e.line = 425

\* the extras each variant declares
DeclaredExtras(cls) ==
    CASE cls = "ConvE" -> {"t_bias"}
      [] cls = "TransR" -> {"m_r"}
      [] cls = "TransD" -> {"h_p", "r_p", "t_p"}
      [] OTHER -> {}

\* the feature sizes fit the variant: Structured Embedding takes relation
\* vectors of size 2 * dim^2
FitsVariant(cls, d_e, d_r) ==
    cls = "StructuredEmbedding" => d_r = 2 * d_e * d_e

\* h, r, t are a batch of exact triples: each of shape (batch, feature) with
\* a common batch size and a common entity feature size
ExactTriples(h, r, t) ==
    /\ h.shape[1] = r.shape[1] /\ r.shape[1] = t.shape[1]
    /\ h.shape[2] = t.shape[2]

\* C5: for every variant, score_hrt on h, r, t each of shape
\* (batch, feature) unsqueezes axis 1 of all three, calls forward once and
\* returns a tensor of shape (batch, 1) whose entry [i, 0] is element
\* [i, 0, 0, 0] of forward applied to the unsqueezed inputs.  Stated for
\* the variants that declare no extras (score_hrt passes none) and for
\* representations that fit the variant.
C5_ScoreHrtMatchesForward ==
    (/\ op = "score_hrt"
     /\ DeclaredExtras(inst.cls) = {}
     /\ ExactTriples(args.h, args.r, args.t)
     /\ FitsVariant(inst.cls, args.h.shape[2], args.r.shape[2])) =>
        LET batch == args.h.shape[1]
            fwd == Forward(inst, Unsqueeze(args.h, 1), Unsqueeze(args.r, 1),
                           Unsqueeze(args.t, 1), {})
        IN  /\ ret.ok
            /\ fwdCalls = 1
            /\ ret.val.shape = <<batch, 1>>
            /\ fwd.ret.ok
            /\ \A i \in 0..(batch - 1) :
                 Elem(ret.val, <<i, 0>>) = Elem(fwd.ret.val, <<i, 0, 0, 0>>)

\* the candidate set and the two batch inputs of a one-sided call
OneSidedCandidates ==
    CASE op = "score_h" -> args.all_entities
      [] op = "score_r" -> args.all_relations
      [] op = "score_t" -> args.all_entities

OneSidedBatchInputs ==
    CASE op = "score_h" -> <<args.r, args.t>>
      [] op = "score_r" -> <<args.h, args.t>>
      [] op = "score_t" -> <<args.h, args.r>>

\* the entity representations of a one-sided call share their feature size
OneSidedEntitySizesAgree ==
    CASE op = "score_h" -> args.all_entities.shape[2] = args.t.shape[2]
      [] op = "score_r" -> args.h.shape[2] = args.t.shape[2]
      [] op = "score_t" -> args.all_entities.shape[2] = args.h.shape[2]

\* C6: each one-sided entry point returns a score tensor of shape
\* (batch, num_candidates): score_h (batch, num_entities), score_r
\* (batch, num_relations), score_t (batch, num_entities).
C6_OneSidedShape ==
    (/\ op \in {"score_h", "score_r", "score_t"}
     /\ OneSidedBatchInputs[1].shape[1] = OneSidedBatchInputs[2].shape[1]
     /\ OneSidedEntitySizesAgree) =>
        /\ ret.ok
        /\ ret.val.shape = <<OneSidedBatchInputs[1].shape[1], OneSidedCandidates.shape[1]>>

\* the proviso of C7: the kernel the variant calls returns the shape
\* (batch, num_heads, num_relations, num_tails)
KernelReturnsFourAxes ==
    inst.cls = "UnstructuredModel" => args.r.shape[2] = 1

\* C7: for every concrete variant, forward on inputs broadcastable to
\* (batch, num_heads, num_relations, num_tails, feature) returns a tensor
\* with exactly four axes, of shape (batch, num_heads, num_relations,
\* num_tails), the kernel returning that shape.  The kernel of the
\* unstructured model is not handed r, so it returns that shape only for a
\* single relation.
C7_ForwardFourAxes ==
    (op = "forward" /\ ret.ok /\ KernelReturnsFourAxes) =>
        /\ Len(ret.val.shape) = 4
        /\ ret.val.shape = <<args.h.shape[1], args.h.shape[2], args.r.shape[2], args.t.shape[2]>>

\* C8: every concrete forward runs the leftover-kwargs check after
\* consuming its own extras, so a call with a keyword the variant does not
\* declare fails with the unexpected-argument error and never returns
\* scores.  Stated for calls that pass every declared extra and
\* representations that fit the variant.
C8_UnrecognisedKeywordRejected ==
    (/\ op = "forward"
     /\ args.kwargs \ DeclaredExtras(inst.cls) # {}
     /\ DeclaredExtras(inst.cls) \subseteq args.kwargs
     /\ FitsVariant(inst.cls, args.h.shape[3], args.r.shape[3])) =>
        /\ UnexpectedArgument(ret)
        /\ kernelCalls = 0

\* C9: for every interaction function built by _build_module_from_stateless
\* (ComplEx, DistMult, RotatE, HolE, RESCAL), forward with a non-empty set
\* of extra keywords fails with the unexpected-argument error before the
\* kernel is entered; with no extras it returns the kernel's f(h, r, t).
C9_StatelessRejectsExtras ==
    (op = "forward" /\ inst.cls \in StatelessClasses) =>
        /\ args.kwargs # {} => (UnexpectedArgument(ret) /\ kernelCalls = 0)
        /\ args.kwargs = {} =>
             /\ ret.ok
             /\ ret.val = Kernel(args.h, args.r, args.t)
             /\ kernelCalls = 1

\* C9 witness: a stateless variant called with one extra keyword ended in
\* the unexpected-argument error without entering the kernel.
C9_Witness ==
    /\ op = "forward" /\ inst.cls = "DistMult"
    /\ args.kwargs = {"extra"}
    /\ UnexpectedArgument(ret) /\ kernelCalls = 0

\* C10: ConvE's forward without t_bias fails with the
\* missing-required-argument error whatever other keywords are present,
\* before the kernel is entered; with t_bias and any other keyword it
\* fails with the unexpected-argument error.
C10_ConvERequiresTailBias ==
    (op = "forward" /\ inst.cls = "ConvE") =>
        /\ "t_bias" \notin args.kwargs =>
             (MissingRequiredArgument(ret) /\ kernelCalls = 0)
        /\ ("t_bias" \in args.kwargs /\ args.kwargs # {"t_bias"}) =>
             UnexpectedArgument(ret)

\* C10 witness: ConvE called with other keywords but no t_bias ended in the
\* missing-required-argument error without entering the kernel.
C10_Witness ==
    /\ op = "forward" /\ inst.cls = "ConvE"
    /\ args.kwargs = {"m_r", "extra"}
    /\ MissingRequiredArgument(ret) /\ kernelCalls = 0

\* the variants that declare required extras
ExtrasClasses == {"ConvE", "TransR", "TransD"}

\* C11: for every variant that declares required extras (t_bias for ConvE,
\* m_r for TransR, h_p/r_p/t_p for TransD), a forward call that omits one
\* of them fails with the same argument-missing error kind, the one ConvE
\* raises, distinct from the unexpected-argument error, and never enters
\* the kernel.
C11_MissingExtraSameErrorKind ==
    (/\ op = "forward"
     /\ inst.cls \in ExtrasClasses
     /\ ~(DeclaredExtras(inst.cls) \subseteq args.kwargs)) =>
        /\ ~ret.ok
        /\ ret.type = "TypeError"
        /\ ~UnexpectedArgument(ret)
        /\ kernelCalls = 0

\* the learned parameters the instance owns and those initialised by
\* reset_parameters
OwnedParameters == DOMAIN inst.params
WrittenParameters == {p \in DOMAIN inst.params : inst.params[p] = "reset"}

\* C12: after reset_parameters() on a parametric variant every learned
\* parameter the instance owns has been reinitialised, those of the owned
\* layers that have their own reset routine included: the set written
\* equals the set owned.
C12_ResetWritesEveryOwnedParameter ==
    (op = "reset_parameters" /\ OwnedParameters # {}) =>
        WrittenParameters = OwnedParameters

\* the geometry a ConvE instance stores (lines 375-378)
Geometry(self) ==
    <<self.input_channels, self.embedding_height, self.embedding_width, self.embedding_dim>>

GeometryConsistent(self) ==
    self.input_channels * self.embedding_height * self.embedding_width = self.embedding_dim

\* C13: every ConvE instance that a step constructs or leaves behind has
\* input_channels * embedding_height * embedding_width = embedding_dim,
\* and no call on a constructed ConvE instance (forward, the scoring entry
\* points, reset_parameters; failing calls included) changes the stored
\* input_channels, embedding_height, embedding_width or embedding_dim.
C13_ConvEGeometryFixed ==
    [][/\ inst'.cls = "ConvE" => GeometryConsistent(inst')
       /\ inst.cls = "ConvE" => (inst'.cls = "ConvE" /\ Geometry(inst') = Geometry(inst))]_vars

\* a ConvE instance with more than one input channel whose parameters were
\* reset earlier and on which a call has just failed
C13_Witness ==
    /\ inst.cls = "ConvE"
    /\ inst.input_channels = 2 /\ inst.embedding_width = 2
    /\ GeometryConsistent(inst)
    /\ WrittenParameters = OwnedParameters
    /\ op \in {"forward", "score_hrt", "score_h", "score_r", "score_t"}
    /\ ~ret.ok

ScoringCalled == op \in {"score_hrt", "score_h", "score_r", "score_t"}

\* the axes that carry the same name in the shape check of the entry point
\* have the same size: the batch axes, and the feature axes of the entity
\* representations
NamedAxesAgree ==
    IF op = "score_hrt"
    THEN ExactTriples(args.h, args.r, args.t)
    ELSE /\ OneSidedBatchInputs[1].shape[1] = OneSidedBatchInputs[2].shape[1]
         /\ OneSidedEntitySizesAgree

\* C14: in score_hrt, score_h, score_r and score_t the named-axis shape
\* check comes before forward is invoked: when the check fails the call
\* ends with the shape-mismatch error and neither forward nor a kernel has
\* been entered; the shape-mismatch error is raised in no other case.
C14_ShapeCheckBeforeForward ==
    ScoringCalled =>
        /\ ~NamedAxesAgree =>
              (~ret.ok /\ ret.type = "ShapeMismatch" /\ fwdCalls = 0 /\ kernelCalls = 0)
        /\ (~ret.ok /\ ret.type = "ShapeMismatch") => ~NamedAxesAgree

\* score_hrt with batch sizes that differ has ended in the shape error
C14_Witness ==
    /\ op = "score_hrt"
    /\ args.h.shape[1] # args.r.shape[1]
    /\ ~ret.ok /\ ret.type = "ShapeMismatch"
    /\ fwdCalls = 0

(***************************************************************************)
(* Properties of _remove_dim, checked under SpecDims                       *)
(***************************************************************************)
RemoveDimCalled == op = "_remove_dim"

\* the axis a requested dim denotes on a tensor of the given rank
Axis(d, rank) == IF d < 0 THEN d + rank ELSE d

RequestedAxes == [i \in 1..Len(args.dims) |-> Axis(args.dims[i], Len(args.x.shape))]

TwoDenoteSameAxis ==
    \E i, j \in 1..Len(args.dims) : i # j /\ RequestedAxes[i] = RequestedAxes[j]

DuplicateAxisError(e) == ~e.ok /\ e.type = "ValueError" /\ e.line = 86

\* C15: _remove_dim raises the duplicate-axis error, and returns no
\* squeezed tensor, whenever two of the requested dims denote the same axis
\* after negative indices are normalised; the error reports the normalised
\* dims.  When the normalised dims are pairwise distinct it does not raise
\* that error.
C15_DuplicateAxisRejected ==
    RemoveDimCalled =>
        /\ TwoDenoteSameAxis => (DuplicateAxisError(ret) /\ ret.val = RequestedAxes)
        /\ ~TwoDenoteSameAxis => ~DuplicateAxisError(ret)

\* dims 3 and -1 on a tensor of four axes
C15_Witness ==
    /\ RemoveDimCalled
    /\ Len(args.x.shape) = 4
    /\ args.dims = <<3, -1>>
    /\ DuplicateAxisError(ret)

DistinctInRange ==
    /\ ~TwoDenoteSameAxis
    /\ \A i \in 1..Len(args.dims) :
          0 <= RequestedAxes[i] /\ RequestedAxes[i] < Len(args.x.shape)

NamedAxes == {RequestedAxes[i] : i \in 1..Len(args.dims)}

\* the sizes of the axes from position i (0-based) on that are unnamed or
\* not of size 1, in their order
RECURSIVE KeptSizes(_, _, _)
KeptSizes(shape, named, i) ==
    IF i >= Len(shape) THEN <<>>
    ELSE (IF i \in named /\ shape[i + 1] = 1 THEN <<>> ELSE <<shape[i + 1]>>)
         \o KeptSizes(shape, named, i + 1)

Reversed(q) == [i \in 1..Len(q) |-> q[Len(q) + 1 - i]]

\* C17: for distinct in-range dims the result of _remove_dim is fixed by
\* the set of named axes, whatever the order they are passed in: every
\* named axis of size 1 is removed, every named axis of another size is
\* left, every unnamed axis keeps its size and its place among the others,
\* and the elements are those of the input.
C17_RemoveDimOrderIndependent ==
    (RemoveDimCalled /\ DistinctInRange) =>
        /\ ret.ok
        /\ ret.val.shape = KeptSizes(args.x.shape, NamedAxes, 0)
        /\ ret.val.data = args.x.data
        /\ ret = RemoveDim(args.x, Reversed(args.dims))

\* axes 1, 2, 3 of a (2, 1, 1, 1) tensor named lowest first, one of them
\* by a negative index
C17_Witness ==
    /\ RemoveDimCalled
    /\ args.x.shape = <<2, 1, 1, 1>>
    /\ args.dims = <<1, 2, -1>>
    /\ ret.ok /\ ret.val.shape = <<2>>

(***************************************************************************)
(* The resolver on all-unset input, checked under SpecShape                *)
(***************************************************************************)
\* C16: with input_channels, width and height all unset and
\* embedding_dim >= 1 the resolver never raises: it returns
\* input_channels = 1 and a height that is at most the width, with
\* height * height <= embedding_dim; the factorization error cannot come
\* from all-unset input.
C16_AllUnsetNeverRaises ==
    (ShapeCalled /\ AllUnset(args) /\ args.embedding_dim >= 1) =>
        /\ ret.ok
        /\ ret.val[1] = 1
        /\ ret.val[3] <= ret.val[2]
        /\ ret.val[3] * ret.val[3] <= args.embedding_dim

\* a prime embedding dimension: the only height found is 1
C16_Witness ==
    /\ ShapeCalled /\ AllUnset(args)
    /\ args.embedding_dim = 13
    /\ ret.ok /\ ret.val = <<1, 13, 1>>

====
